---- MODULE Spec2Model ----
(***************************************************************************)
(* A model of FolderSynchronizer (src/src/synchronizer.py): the ignore     *)
(* matcher, the tree scanner, the equality check with its hash cache, the  *)
(* add / remove / update phases of synchronize() with the bounded retry,   *)
(* and the scheduling loop of main().                                      *)
(*                                                                         *)
(* Paths are sequences of one-character strings, so that startswith,       *)
(* endswith, split and replace are computed character by character.        *)
(***************************************************************************)
EXTENDS Integers, Sequences, FiniteSets, TLC

\* ------------------------------------------------------------------ bounds

MaxPasses == 2        \* passes of the scheduling loop that are explored
MaxFaults == 1        \* I/O faults the environment may inject
MaxRetries == 2       \* max_retries is drawn from 1..MaxRetries
MaxPathLen == 3       \* length of the paths given to should_ignore
MaxRuleLen == 2       \* length of one ignore rule given to should_ignore
MaxRules == 2         \* length of the rule list given to should_ignore

\* ------------------------------------------------------------ string model

Empty == << >>
Slash == <<"/">>

\* str.startswith
StartsWith(s, pre) ==
    /\ Len(pre) <= Len(s)
    /\ SubSeq(s, 1, Len(pre)) = pre

\* str.endswith
EndsWith(s, suf) ==
    /\ Len(suf) <= Len(s)
    /\ SubSeq(s, Len(s) - Len(suf) + 1, Len(s)) = suf

\* s.replace("\\", "/")
Normalize(s) == [i \in 1..Len(s) |-> IF s[i] = "\\" THEN "/" ELSE s[i]]

\* "c" in s
Contains(s, c) == \E i \in 1..Len(s) : s[i] = c

\* index of the last "/" of s, 0 when there is none
LastSlash(s) ==
    IF Contains(s, "/")
    THEN CHOOSE i \in 1..Len(s) :
            /\ s[i] = "/"
            /\ \A j \in (i + 1)..Len(s) : s[j] # "/"
    ELSE 0

\* os.path.dirname and os.path.basename of a relative path
Dirname(s) == IF LastSlash(s) = 0 THEN Empty ELSE SubSeq(s, 1, LastSlash(s) - 1)
Basename(s) == SubSeq(s, LastSlash(s) + 1, Len(s))

\* os.path.join(a, b) for relative paths
Join(a, b) == IF a = Empty THEN b ELSE a \o Slash \o b

\* pattern.split("*", 1)[1]: what follows the first "*"
AfterFirstStar(pat) ==
    LET i == CHOOSE k \in 1..Len(pat) :
                /\ pat[k] = "*"
                /\ \A j \in 1..(k - 1) : pat[j] # "*"
    IN SubSeq(pat, i + 1, Len(pat))

\* ---------------------------------------------------------- ignore matcher

match_pattern(path, pattern) ==
    LET p == Normalize(path)
        pat == Normalize(pattern)
    IN IF EndsWith(pat, Slash)
       THEN StartsWith(p, SubSeq(pat, 1, Len(pat) - 1))
       ELSE IF Contains(pat, "*")
            THEN IF pat[1] = "*"
                 THEN EndsWith(p, AfterFirstStar(pat))
                 ELSE FALSE
            ELSE p = pat

should_ignore(path, patterns) ==
    \E i \in 1..Len(patterns) : match_pattern(path, patterns[i])

\* ------------------------------------------------------------- file system

\* The relative paths of the explored trees.  HashCacheName stands for
\* "hash_cache.json", the file __init__ places in the replica root.
A == <<"a">>
AA == <<"a", "/", "a">>
AAA == <<"a", "/", "a", "/", "a">>
HashCacheName == <<"h">>
Paths == {A, AA, AAA, HashCacheName}
\* paths that may be directories in an explored tree
DirPaths == {A, AA}

\* A node of a tree.  A regular file has data # 0; a file written by
\* json.dump has data = 0 and the dumped dictionary in json.  mtime is in
\* milliseconds.  A symbolic link in the replica names in `to` the path of
\* the source tree it points at.
NoNode == [kind |-> "none", data |-> 0, json |-> {}, mtime |-> 0, to |-> Empty]
DirNode == [kind |-> "dir", data |-> 0, json |-> {}, mtime |-> 0, to |-> Empty]
FileNode(d, t) ==
    [kind |-> "file", data |-> d, json |-> {}, mtime |-> t, to |-> Empty]
JsonNode(j, t) ==
    [kind |-> "file", data |-> 0, json |-> j, mtime |-> t, to |-> Empty]
LinkNode(target) ==
    [kind |-> "link", data |-> 0, json |-> {}, mtime |-> 0, to |-> target]

EmptyTree == [p \in Paths |-> NoNode]

\* os.path.exists, os.path.isdir, os.path.isfile on a path of a tree
Exists(tree, p) == p = Empty \/ (p \in Paths /\ tree[p].kind # "none")
IsDir(tree, p) == p = Empty \/ (p \in Paths /\ tree[p].kind = "dir")
IsFile(tree, p) == p \in Paths /\ tree[p].kind = "file"

\* what os.stat, os.path.exists and open find at a node of the replica:
\* they follow a symbolic link into the source tree
Resolve(stree, node) ==
    IF node.kind = "link"
    THEN IF node.to \in Paths THEN stree[node.to] ELSE NoNode
    ELSE node
Seen(stree, rtree) == [p \in Paths |-> Resolve(stree, rtree[p])]

\* every entry lies in a directory
WellFormed(tree) ==
    \A p \in Paths : tree[p].kind # "none" => IsDir(tree, Dirname(p))

\* ------------------------------------------------------------ tree scanner

\* os.walk(root) with the pruning of get_all_items: todo holds the
\* directories still to visit, acc the files and directories found so far
RECURSIVE walk(_, _, _, _)
walk(tree, patterns, todo, acc) ==
    IF todo = {} THEN acc
    ELSE LET rel_dir == CHOOSE d \in todo : TRUE
             entries == {p \in Paths : Dirname(p) = rel_dir /\ tree[p].kind # "none"}
             filenames == {p \in entries : tree[p].kind \in {"file", "link"}}
             dirnames == {p \in entries : tree[p].kind = "dir"}
             kept == {d \in dirnames : ~should_ignore(d, patterns)}
         IN walk(tree, patterns, (todo \ {rel_dir}) \cup kept,
                 [files |-> acc.files \cup
                            {f \in filenames : ~should_ignore(f, patterns)},
                  dirs |-> acc.dirs \cup
                           (IF rel_dir # Empty THEN {rel_dir} ELSE {})])

\* the walk without the pruning of lines 87-90
RECURSIVE walk_unpruned(_, _, _, _)
walk_unpruned(tree, patterns, todo, acc) ==
    IF todo = {} THEN acc
    ELSE LET rel_dir == CHOOSE d \in todo : TRUE
             entries == {p \in Paths : Dirname(p) = rel_dir /\ tree[p].kind # "none"}
             filenames == {p \in entries : tree[p].kind \in {"file", "link"}}
             dirnames == {p \in entries : tree[p].kind = "dir"}
         IN walk_unpruned(tree, patterns, (todo \ {rel_dir}) \cup dirnames,
                 [files |-> acc.files \cup
                            {f \in filenames : ~should_ignore(f, patterns)},
                  dirs |-> acc.dirs \cup
                           (IF rel_dir # Empty THEN {rel_dir} ELSE {})])

\* get_all_items on top of it
get_all_items_unpruned(tree, root_ok, patterns) ==
    IF root_ok
    THEN walk_unpruned(tree, patterns, {Empty}, [files |-> {}, dirs |-> {}])
    ELSE [files |-> {}, dirs |-> {}]

\* get_all_items(root): os.walk of a missing or unreadable root yields
\* nothing (no onerror handler), so the result is the empty snapshot
get_all_items(tree, root_ok, patterns) ==
    IF root_ok
    THEN walk(tree, patterns, {Empty}, [files |-> {}, dirs |-> {}])
    ELSE [files |-> {}, dirs |-> {}]

\* ---------------------------------------------------------- equality check

\* st_size of a node: the explored regular files have 10 bytes (contents 1
\* and 2) or 11 bytes (content 3), a dumped dictionary has 2 bytes plus 60
\* per entry, a directory 4096
Size(node) ==
    IF node.kind = "dir" THEN 4096
    ELSE IF node.data # 0 THEN 10 + node.data \div 3
    ELSE 2 + 60 * Cardinality(node.json)

\* hashlib.md5 of the bytes of a file, taken as injective on contents
Digest(node) == [data |-> node.data, json |-> node.json]
\* the "" that md5 returns for a missing file
NoDigest == [data |-> -1, json |-> {}]

\* the cache key without the modification time
CacheKey_no_mtime(side, p, node) == <<side, p, Size(node), 0>>

\* f"{file_path}-{stat.st_size}-{int(stat.st_mtime)}"
CacheKey(side, p, node) == <<side, p, Size(node), node.mtime \div 1000>>

\* the dictionary hash_cache is a set of key/value entries, one per key
CacheHas(cache, key) == \E e \in cache : e.key = key
CacheGet(cache, key) == (CHOOSE e \in cache : e.key = key).val
CachePut(cache, key, val) ==
    {e \in cache : e.key # key} \cup {[key |-> key, val |-> val]}

\* md5(file_path) on the node found at that path: the digest returned, the
\* hash cache afterwards, and whether open() raised (a directory)
md5(side, p, node, cache, use_cache) ==
    IF node.kind = "none"
    THEN [hash |-> NoDigest, cache |-> cache, raised |-> FALSE]
    ELSE LET key == CacheKey(side, p, node)
         IN IF use_cache /\ CacheHas(cache, key)
            THEN [hash |-> CacheGet(cache, key), cache |-> cache, raised |-> FALSE]
            ELSE IF node.kind = "dir"
            THEN [hash |-> NoDigest, cache |-> cache, raised |-> TRUE]
            ELSE [hash |-> Digest(node),
                  cache |-> IF use_cache
                            THEN CachePut(cache, key, Digest(node))
                            ELSE cache,
                  raised |-> FALSE]

\* line 139: md5 opens and reads the file unless the cache holds its key
md5_reads(side, p, node, cache, use_cache) ==
    /\ node.kind # "none"
    /\ ~(use_cache /\ CacheHas(cache, CacheKey(side, p, node)))

\* the mtime test of line 171 taken in one direction only
MtimeApart_one_way(s, r) == s.mtime - r.mtime > 1000

\* abs(source_stat.st_mtime - replica_stat.st_mtime) > 1, in milliseconds
MtimeApart(s, r) ==
    IF s.mtime >= r.mtime THEN s.mtime - r.mtime > 1000
    ELSE r.mtime - s.mtime > 1000

\* files_differ(source_file, replica_file) for one relative path: the
\* answer, the hash cache afterwards and whether an exception was raised
files_differ(p, snode, rnode, cache, md5_mode, use_cache) ==
    IF rnode.kind = "none"
    THEN [differ |-> TRUE, cache |-> cache, raised |-> FALSE]
    ELSE IF md5_mode
    THEN LET sh == md5("source", p, snode, cache, use_cache)
             rh == md5("replica", p, rnode, sh.cache, use_cache)
         IN IF sh.raised
            THEN [differ |-> FALSE, cache |-> sh.cache, raised |-> TRUE]
            ELSE [differ |-> sh.hash # rh.hash, cache |-> rh.cache,
                  raised |-> rh.raised]
    ELSE [differ |-> Size(snode) # Size(rnode) \/ MtimeApart(snode, rnode),
          cache |-> cache, raised |-> FALSE]

\* ------------------------------------------------------ file operations

\* the proper ancestors of a path inside the tree
Ancestors(p) == {q \in Paths : StartsWith(p, q \o Slash)}
\* the entries below a path
Descendants(p) == {q \in Paths : StartsWith(q, p \o Slash)}

\* os.makedirs(path) for a path that does not exist: it fails when an
\* ancestor is a regular file or a link to one, or when the path itself is
\* a dangling link, and then creates nothing
makedirs_ok(tree, p) ==
    /\ p \in Paths
    /\ tree[p].kind \notin {"file", "link"}
    /\ \A q \in Ancestors(p) : tree[q].kind \notin {"file", "link"}
makedirs(tree, p) ==
    [q \in Paths |-> IF q = p \/ q \in Ancestors(p) THEN DirNode ELSE tree[q]]

\* shutil.copy2(src, dst): into dst/basename(src) when dst is a directory;
\* data and modification time are copied.  open(dst, "wb") follows a
\* symbolic link: the bytes go to the file the link points at, which is
\* created when it is missing; copying a file onto itself raises
\* SameFileError.
copy2_target(rtree, item) ==
    IF IsDir(rtree, item) THEN Join(item, Basename(item)) ELSE item
copy2_ok(stree, rtree, item) ==
    /\ IsFile(stree, item)
    /\ copy2_target(rtree, item) \in Paths
    /\ IsDir(rtree, Dirname(copy2_target(rtree, item)))
    /\ ~IsDir(rtree, copy2_target(rtree, item))
    /\ rtree[copy2_target(rtree, item)].kind = "link" =>
          LET to == rtree[copy2_target(rtree, item)].to
          IN /\ to \in Paths
             /\ to # item
             /\ IsDir(stree, Dirname(to))
             /\ ~IsDir(stree, to)
copy2(stree, rtree, item) ==
    IF rtree[copy2_target(rtree, item)].kind = "link"
    THEN rtree
    ELSE [rtree EXCEPT ![copy2_target(rtree, item)] = stree[item]]
\* the source tree after shutil.copy2(src, dst)
copy2_source(stree, rtree, item) ==
    IF rtree[copy2_target(rtree, item)].kind = "link"
    THEN [stree EXCEPT ![rtree[copy2_target(rtree, item)].to] = stree[item]]
    ELSE stree

\* shutil.rmtree(path)
rmtree_ok(tree, p) == p \in Paths /\ tree[p].kind = "dir"
rmtree(tree, p) ==
    [q \in Paths |-> IF q = p \/ q \in Descendants(p) THEN NoNode ELSE tree[q]]

\* os.remove(path): a regular file, or a symbolic link, which is removed
\* itself
remove_ok(tree, p) == p \in Paths /\ tree[p].kind \in {"file", "link"}
remove(tree, p) == [tree EXCEPT ![p] = NoNode]

\* -------------------------------------------------------------------- state

VARIABLES
    src,              \* the source tree on disk
    source_ok,        \* the source root exists and is readable
    rep,              \* the replica tree on disk
    use_md5, use_hash_cache, dry_run, ignore_patterns, max_retries,
    hash_cache,       \* self.hash_cache, the in-memory dictionary
    pc,               \* position in main() / synchronize()
    passes,           \* passes of the scheduling loop that have ended
    source_items,     \* get_all_items(source_folder)
    replica_items,    \* get_all_items(replica_folder)
    to_add, to_remove, in_both,
    iter,             \* items the running for loop has already taken
    cur,              \* the running _retry_operation call
    log,              \* info and error events of the running pass
    faults,           \* I/O faults the environment may still inject
    faulted,          \* a fault was injected during the running pass
    start,            \* the replica and cache state when the pass began
    to_update,        \* items of in_both for which files_differ held
    prev,             \* what the previous pass was and what it logged
    query             \* one should_ignore call: its argument and result

optv == <<use_md5, use_hash_cache, ignore_patterns, max_retries>>
srcv == <<src, source_ok>>
planv == <<source_items, replica_items, to_add, to_remove, in_both>>
vars == <<src, source_ok, rep, use_md5, use_hash_cache, dry_run,
          ignore_patterns, max_retries, hash_cache, pc, passes, source_items,
          replica_items, to_add, to_remove, in_both, iter, cur, log, faults,
          faulted, start, to_update, prev, query>>

NoItems == [files |-> {}, dirs |-> {}]
Event(kind, item) == [kind |-> kind, item |-> item]
NoOp == [func |-> "none", item |-> Empty, phase |-> "none", calls |-> 0,
         warns |-> 0, errs |-> 0, ok |-> FALSE, state |-> "none"]
NewOp(func, item, phase) ==
    [func |-> func, item |-> item, phase |-> phase, calls |-> 0,
     warns |-> 0, errs |-> 0, ok |-> FALSE, state |-> "running"]
NoPrev == [clean |-> FALSE, twin |-> FALSE, failed |-> FALSE, events |-> {}]
NoQuery == [path |-> Empty, state |-> "none", result |-> FALSE]
NoStart == [rep |-> EmptyTree, fresh |-> FALSE]

\* the events a pass shows an operator: copies and removals
Preview(events) ==
    {e \in events : e.kind \in {"dir_copied", "file_copied", "removed"}}

\* the time.time() of a write made during the current pass, in milliseconds;
\* passes are at least one interval apart
Now == 10000 + 2000 * passes

\* __init__, lines 60-64: what open() and json.load make of the cache file
cache_loadable(tree, use_cache) ==
    use_cache /\ Exists(tree, HashCacheName) =>
        (tree[HashCacheName].kind = "file" /\ tree[HashCacheName].data = 0)
load_cache(tree, use_cache) ==
    IF use_cache /\ Exists(tree, HashCacheName)
    THEN tree[HashCacheName].json
    ELSE {}

\* ------------------------------------------------------------ initial state

SourceNodes == {NoNode, DirNode, FileNode(1, 0)}
ReplicaNodes == {NoNode, DirNode, FileNode(1, 0), FileNode(2, 5000),
                 JsonNode({}, 0)}

TreesOver(nodes) ==
    {t \in [Paths -> nodes] :
        /\ WellFormed(t)
        /\ \A p \in Paths : t[p].kind = "dir" => p \in DirPaths}

SourceTrees == TreesOver(SourceNodes)
ReplicaTrees ==
    {t \in TreesOver(ReplicaNodes) :
        /\ t[HashCacheName] \in {NoNode, JsonNode({}, 0)}
        /\ \A p \in Paths \ {HashCacheName} : t[p] # JsonNode({}, 0)}

IgnoreLists == {<< >>, <<AA \o Slash>>}

Init ==
    /\ src \in SourceTrees
    /\ source_ok = TRUE
    /\ rep \in ReplicaTrees
    /\ use_md5 \in BOOLEAN
    /\ use_hash_cache \in BOOLEAN
    /\ dry_run \in BOOLEAN
    /\ ignore_patterns \in IgnoreLists
    /\ max_retries \in 1..MaxRetries
    /\ hash_cache = load_cache(rep, use_hash_cache)
    /\ pc = "idle"
    /\ passes = 0
    /\ source_items = NoItems
    /\ replica_items = NoItems
    /\ to_add = {}
    /\ to_remove = {}
    /\ in_both = {}
    /\ iter = {}
    /\ cur = NoOp
    /\ log = {}
    /\ faults = MaxFaults
    /\ faulted = FALSE
    /\ start = NoStart
    /\ to_update = {}
    /\ prev = NoPrev
    /\ query = NoQuery

\* ------------------------------------------------------------- synchronize

\* lines 235: source_files, source_dirs = get_all_items(source_folder)
ScanSource ==
    /\ pc = "idle"
    /\ passes < MaxPasses
    /\ source_items' = get_all_items(src, source_ok, ignore_patterns)
    /\ start' = [rep |-> rep,
                 fresh |-> hash_cache = load_cache(rep, use_hash_cache)]
    /\ pc' = "scan_replica"
    /\ UNCHANGED <<srcv, rep, optv, dry_run, hash_cache, passes,
                   replica_items, to_add, to_remove, in_both, iter, cur, log,
                   faults, faulted, to_update, prev, query>>

\* line 236: replica_files, replica_dirs = get_all_items(replica_folder)
ScanReplica ==
    /\ pc = "scan_replica"
    /\ replica_items' = get_all_items(rep, TRUE, ignore_patterns)
    /\ pc' = "plan"
    /\ UNCHANGED <<srcv, rep, optv, dry_run, hash_cache, passes, source_items,
                   to_add, to_remove, in_both, iter, cur, log, faults,
                   faulted, start, to_update, prev, query>>

\* the plan with a remove set that is not reduced by the source's items
Plan_remove_all ==
    /\ pc = "plan"
    /\ LET source_all == source_items.files \cup source_items.dirs
           replica_all == replica_items.files \cup replica_items.dirs
       IN /\ to_add' = source_all \ replica_all
          /\ to_remove' = replica_all
          /\ in_both' = source_all \cap replica_all
    /\ pc' = "add"
    /\ UNCHANGED <<srcv, rep, optv, dry_run, hash_cache, passes, source_items,
                   replica_items, iter, cur, log, faults, faulted, start,
                   to_update, prev, query>>

\* lines 238-243: the three sets of the plan
Plan ==
    /\ pc = "plan"
    /\ LET source_all == source_items.files \cup source_items.dirs
           replica_all == replica_items.files \cup replica_items.dirs
       IN /\ to_add' = source_all \ replica_all
          /\ to_remove' = replica_all \ source_all
          /\ in_both' = source_all \cap replica_all
    /\ pc' = "add"
    /\ UNCHANGED <<srcv, rep, optv, dry_run, hash_cache, passes, source_items,
                   replica_items, iter, cur, log, faults, faulted, start,
                   to_update, prev, query>>

\* ensure_dir_exists that never calls os.makedirs
ensure_dir_exists_never(tree, path, dry) == FALSE

\* ensure_dir_exists with the dry-run test left out of line 67
ensure_dir_exists_unguarded(tree, path, dry) == ~Exists(tree, path)

\* ensure_dir_exists(path): whether os.makedirs is called
ensure_dir_exists(tree, path, dry) == ~Exists(tree, path) /\ ~dry

\* copy_item(rel_path), called from the loop `phase`: the directory branch
\* logs at once, the file branch hands shutil.copy2 to _retry_operation;
\* an exception of os.makedirs leaves synchronize()
copy_item(item, phase) ==
    LET isdir == IsDir(src, item)
        path == IF isdir THEN item ELSE Dirname(item)
        need == ensure_dir_exists(Seen(src, rep), path, dry_run)
    IN \/ /\ need
          /\ ~makedirs_ok(rep, path)
          /\ pc' = "failed"
          /\ UNCHANGED <<rep, cur, log, faults, faulted>>
       \/ /\ need
          /\ makedirs_ok(rep, path)
          /\ faults > 0
          /\ faults' = faults - 1
          /\ faulted' = TRUE
          /\ pc' = "failed"
          /\ UNCHANGED <<rep, cur, log>>
       \/ /\ need => makedirs_ok(rep, path)
          /\ rep' = IF need THEN makedirs(rep, path) ELSE rep
          /\ UNCHANGED <<faults, faulted>>
          /\ IF isdir
             THEN /\ log' = log \cup {Event("dir_copied", item)}
                  /\ pc' = phase
                  /\ cur' = cur
             ELSE IF dry_run
             THEN /\ log' = log \cup {Event("file_copied", item)}
                  /\ pc' = phase
                  /\ cur' = cur
             ELSE /\ cur' = NewOp("copy2", item, phase)
                  /\ pc' = "retry"
                  /\ log' = log

\* lines 246-247: for item in to_add: copy_item(item)
AddItem ==
    /\ pc = "add"
    /\ \E item \in to_add \ iter :
        /\ iter' = iter \cup {item}
        /\ copy_item(item, "add")
    /\ UNCHANGED <<srcv, optv, dry_run, hash_cache, passes, planv, start,
                   to_update, prev, query>>

AddDone ==
    /\ pc = "add"
    /\ to_add \subseteq iter
    /\ pc' = "remove"
    /\ iter' = {}
    /\ UNCHANGED <<srcv, rep, optv, dry_run, hash_cache, passes, planv, cur,
                   log, faults, faulted, start, to_update, prev, query>>

\* remove_item(rel_path): rmtree for a directory, os.remove otherwise
remove_item(item) ==
    IF dry_run
    THEN /\ log' = log \cup {Event("removed", item)}
         /\ UNCHANGED <<pc, cur>>
    ELSE /\ cur' = NewOp(IF IsDir(rep, item) THEN "rmtree" ELSE "remove",
                         item, "remove")
         /\ pc' = "retry"
         /\ log' = log

\* lines 250-251: for item in to_remove: remove_item(item)
RemoveItem ==
    /\ pc = "remove"
    /\ \E item \in to_remove \ iter :
        /\ iter' = iter \cup {item}
        /\ remove_item(item)
    /\ UNCHANGED <<srcv, rep, optv, dry_run, hash_cache, passes, planv,
                   faults, faulted, start, to_update, prev, query>>

RemoveDone ==
    /\ pc = "remove"
    /\ to_remove \subseteq iter
    /\ pc' = "update"
    /\ iter' = {}
    /\ UNCHANGED <<srcv, rep, optv, dry_run, hash_cache, passes, planv, cur,
                   log, faults, faulted, start, to_update, prev, query>>

\* lines 254-260: for item in in_both: copy the files that differ; an
\* exception of os.stat or open leaves synchronize()
UpdateItem ==
    /\ pc = "update"
    /\ \E item \in in_both \ iter :
        /\ iter' = iter \cup {item}
        /\ LET fd == files_differ(item, src[item], Resolve(src, rep[item]),
                                  hash_cache, use_md5, use_hash_cache)
           IN \/ /\ ~IsFile(src, item)
                 /\ UNCHANGED <<rep, cur, log, pc, faults, faulted,
                                hash_cache, to_update>>
              \/ /\ IsFile(src, item)
                 /\ fd.raised
                 /\ hash_cache' = fd.cache
                 /\ pc' = "failed"
                 /\ UNCHANGED <<rep, cur, log, faults, faulted, to_update>>
              \/ /\ IsFile(src, item)
                 /\ ~fd.raised
                 /\ Exists(Seen(src, rep), item)
                 /\ faults > 0
                 /\ faults' = faults - 1
                 /\ faulted' = TRUE
                 /\ pc' = "failed"
                 /\ UNCHANGED <<rep, cur, log, hash_cache, to_update>>
              \/ /\ IsFile(src, item)
                 /\ ~fd.raised
                 /\ ~fd.differ
                 /\ hash_cache' = fd.cache
                 /\ UNCHANGED <<rep, cur, log, pc, faults, faulted, to_update>>
              \/ /\ IsFile(src, item)
                 /\ ~fd.raised
                 /\ fd.differ
                 /\ hash_cache' = fd.cache
                 /\ to_update' = to_update \cup {item}
                 /\ copy_item(item, "update")
    /\ UNCHANGED <<srcv, optv, dry_run, passes, planv, start, prev, query>>

UpdateDone ==
    /\ pc = "update"
    /\ in_both \subseteq iter
    /\ pc' = "flush"
    /\ iter' = {}
    /\ UNCHANGED <<srcv, rep, optv, dry_run, hash_cache, passes, planv, cur,
                   log, faults, faulted, start, to_update, prev, query>>

\* lines 263-265: json.dump(self.hash_cache) into the replica root
Flush ==
    /\ pc = "flush"
    /\ \/ /\ ~(use_hash_cache /\ ~dry_run)
          /\ pc' = "done"
          /\ UNCHANGED <<rep, faults, faulted>>
       \/ /\ use_hash_cache /\ ~dry_run
          /\ rep' = [rep EXCEPT ![HashCacheName] = JsonNode(hash_cache, Now)]
          /\ pc' = "done"
          /\ UNCHANGED <<faults, faulted>>
       \/ /\ use_hash_cache /\ ~dry_run
          /\ faults > 0
          /\ faults' = faults - 1
          /\ faulted' = TRUE
          /\ pc' = "failed"
          /\ UNCHANGED rep
    /\ UNCHANGED <<srcv, optv, dry_run, hash_cache, passes, planv, iter, cur,
                   log, start, to_update, prev, query>>

\* ---------------------------------------------------------- bounded retry

\* whether func(*args) succeeds on the trees as they are
op_ok(func, item) ==
    CASE func = "copy2" -> copy2_ok(src, rep, item)
      [] func = "rmtree" -> rmtree_ok(rep, item)
      [] func = "remove" -> remove_ok(rep, item)
      [] OTHER -> FALSE
op_effect(func, item) ==
    CASE func = "copy2" -> copy2(src, rep, item)
      [] func = "rmtree" -> rmtree(rep, item)
      [] func = "remove" -> remove(rep, item)
      [] OTHER -> rep
op_effect_source(func, item) ==
    CASE func = "copy2" -> copy2_source(src, rep, item)
      [] OTHER -> src

\* _retry_operation with a loop that runs one attempt too many
retry_operation_one_more(op, succeeded, n) ==
    IF succeeded
    THEN [op EXCEPT !.calls = @ + 1, !.ok = TRUE, !.state = "returned"]
    ELSE IF op.calls + 1 > n
    THEN [op EXCEPT !.calls = @ + 1, !.warns = @ + 1, !.errs = @ + 1,
                    !.state = "returned"]
    ELSE [op EXCEPT !.calls = @ + 1, !.warns = @ + 1]

\* one turn of the for loop of _retry_operation on the call record op:
\* return on success; on an exception a warning, and after the last
\* attempt the permanent-failure error
retry_operation(op, succeeded, n) ==
    IF succeeded
    THEN [op EXCEPT !.calls = @ + 1, !.ok = TRUE, !.state = "returned"]
    ELSE IF op.calls + 1 >= n
    THEN [op EXCEPT !.calls = @ + 1, !.warns = @ + 1, !.errs = @ + 1,
                    !.state = "returned"]
    ELSE [op EXCEPT !.calls = @ + 1, !.warns = @ + 1]

RetryAttempt ==
    /\ pc = "retry"
    /\ cur.state = "running"
    /\ \/ /\ op_ok(cur.func, cur.item)
          /\ rep' = op_effect(cur.func, cur.item)
          /\ src' = op_effect_source(cur.func, cur.item)
          /\ cur' = retry_operation(cur, TRUE, max_retries)
          /\ UNCHANGED <<log, faults, faulted>>
       \/ /\ ~op_ok(cur.func, cur.item)
          /\ cur' = retry_operation(cur, FALSE, max_retries)
          /\ log' = IF cur'.errs > 0
                    THEN log \cup {Event("error", cur.item)}
                    ELSE log
          /\ UNCHANGED <<src, rep, faults, faulted>>
       \/ /\ op_ok(cur.func, cur.item)
          /\ faults > 0
          /\ faults' = faults - 1
          /\ faulted' = TRUE
          /\ cur' = retry_operation(cur, FALSE, max_retries)
          /\ log' = IF cur'.errs > 0
                    THEN log \cup {Event("error", cur.item)}
                    ELSE log
          /\ UNCHANGED <<src, rep>>
    /\ UNCHANGED <<source_ok, optv, dry_run, hash_cache, pc, passes, planv,
                   iter, start, to_update, prev, query>>

\* the logger.info that follows _retry_operation in copy_item and
\* remove_item, whatever the call's outcome
RetryReturn ==
    /\ pc = "retry"
    /\ cur.state = "returned"
    /\ log' = log \cup {Event(IF cur.func = "copy2" THEN "file_copied"
                              ELSE "removed", cur.item)}
    /\ pc' = cur.phase
    /\ cur' = NoOp
    /\ UNCHANGED <<srcv, rep, optv, dry_run, hash_cache, passes, planv, iter,
                   faults, faulted, start, to_update, prev, query>>

\* ------------------------------------------------------------------- main

\* the loop of main() without the except clause of lines 428-429: an
\* exception of synchronize() ends the process
PassEnd_uncaught ==
    /\ pc \in {"done", "failed"}
    /\ pc' = IF pc = "failed" THEN "exited" ELSE "idle"
    /\ passes' = passes + 1
    /\ prev' = [clean |-> pc = "done" /\ ~dry_run /\ ~faulted,
                twin |-> pc = "done" /\ dry_run /\ ~faulted /\ start.fresh,
                failed |-> pc = "failed",
                events |-> IF pc = "done" /\ dry_run /\ ~faulted /\ start.fresh
                           THEN Preview(log) ELSE {}]
    /\ source_items' = NoItems
    /\ replica_items' = NoItems
    /\ to_add' = {}
    /\ to_remove' = {}
    /\ in_both' = {}
    /\ iter' = {}
    /\ cur' = NoOp
    /\ log' = {}
    /\ faulted' = FALSE
    /\ start' = NoStart
    /\ to_update' = {}
    /\ UNCHANGED <<srcv, rep, optv, dry_run, hash_cache, faults, query>>

\* lines 424-430: the pass returned or its exception was caught; the locals
\* of synchronize() are gone and the loop sleeps
PassEnd ==
    /\ pc \in {"done", "failed"}
    /\ pc' = "idle"
    /\ passes' = passes + 1
    /\ prev' = [clean |-> pc = "done" /\ ~dry_run /\ ~faulted,
                twin |-> pc = "done" /\ dry_run /\ ~faulted /\ start.fresh,
                failed |-> pc = "failed",
                events |-> IF pc = "done" /\ dry_run /\ ~faulted /\ start.fresh
                           THEN Preview(log) ELSE {}]
    /\ source_items' = NoItems
    /\ replica_items' = NoItems
    /\ to_add' = {}
    /\ to_remove' = {}
    /\ in_both' = {}
    /\ iter' = {}
    /\ cur' = NoOp
    /\ log' = {}
    /\ faulted' = FALSE
    /\ start' = NoStart
    /\ to_update' = {}
    /\ UNCHANGED <<srcv, rep, optv, dry_run, hash_cache, faults, query>>

\* the process is started again, with or without --dry-run: __init__ loads
\* the cache file, and json.load raises on a file that is not JSON
Restart ==
    /\ pc = "idle"
    /\ 0 < passes
    /\ passes < MaxPasses
    /\ \/ /\ cache_loadable(rep, use_hash_cache)
          /\ dry_run' \in BOOLEAN
          /\ hash_cache' = load_cache(rep, use_hash_cache)
          /\ prev' = [prev EXCEPT !.clean = FALSE]
          /\ pc' = "idle"
       \/ /\ ~cache_loadable(rep, use_hash_cache)
          /\ pc' = "exited"
          /\ UNCHANGED <<dry_run, hash_cache, prev>>
    /\ UNCHANGED <<srcv, rep, optv, passes, planv, iter, cur, log, faults,
                   faulted, start, to_update, query>>

\* ------------------------------------------------------------ environment

\* a file or directory of the source is deleted between two passes
SourceRemove ==
    /\ pc = "idle"
    /\ 0 < passes
    /\ passes < MaxPasses
    /\ source_ok
    /\ \E p \in Paths :
        /\ Exists(src, p)
        /\ src' = [q \in Paths |-> IF q = p \/ q \in Descendants(p)
                                   THEN NoNode ELSE src[q]]
    /\ prev' = NoPrev
    /\ UNCHANGED <<source_ok, rep, optv, dry_run, hash_cache, pc, passes,
                   planv, iter, cur, log, faults, faulted, start, to_update,
                   query>>

\* the source root disappears or becomes unreadable after main() checked it
SourceRootLost ==
    /\ pc = "idle"
    /\ passes < MaxPasses
    /\ source_ok
    /\ source_ok' = FALSE
    /\ src' = EmptyTree
    /\ prev' = NoPrev
    /\ UNCHANGED <<rep, optv, dry_run, hash_cache, pc, passes, planv, iter,
                   cur, log, faults, faulted, start, to_update, query>>

Next ==
    \/ ScanSource
    \/ ScanReplica
    \/ Plan
    \/ AddItem
    \/ AddDone
    \/ RemoveItem
    \/ RemoveDone
    \/ UpdateItem
    \/ UpdateDone
    \/ Flush
    \/ RetryAttempt
    \/ RetryReturn
    \/ PassEnd
    \/ Restart
    \/ SourceRemove
    \/ SourceRootLost

Spec == Init /\ [][Next]_vars

\* One run of main(): the steps of the loop, which is never blocked (every
\* call returns or raises, time.sleep ends), with the source changing under
\* it and no keyboard interrupt.
LoopStep ==
    \/ ScanSource
    \/ ScanReplica
    \/ Plan
    \/ AddItem
    \/ AddDone
    \/ RemoveItem
    \/ RemoveDone
    \/ UpdateItem
    \/ UpdateDone
    \/ Flush
    \/ RetryAttempt
    \/ RetryReturn
    \/ PassEnd

NextLoop ==
    \/ LoopStep
    \/ SourceRemove
    \/ SourceRootLost

\* the runs without ignore rules and with the largest retry count
InitLoop ==
    /\ Init
    /\ ignore_patterns = << >>
    /\ max_retries = MaxRetries

SpecLoop == InitLoop /\ [][NextLoop]_vars /\ WF_vars(LoopStep)

\* ----------------------------------------------------------------- claims

\* the trees stay trees, and only the paths allowed to be directories are
TreesOK ==
    /\ WellFormed(rep)
    /\ WellFormed(src)
    /\ \A p \in Paths : IsDir(rep, p) => p \in DirPaths

\* a live pass in which the environment injected no fault has completed
LivePassDone == pc = "done" /\ ~dry_run /\ ~faulted
\* ... or has ended, completed or left by an exception
LivePassEnded == pc \in {"done", "failed"} /\ ~dry_run /\ ~faulted

\* C1. Convergence: after one live pass without I/O faults the scan of the
\* replica returns the same file set and the same directory set as the
\* scan of the source, whatever the trees and the options were.
C1_Convergence ==
    LivePassDone /\ source_ok =>
        get_all_items(rep, TRUE, ignore_patterns)
            = get_all_items(src, source_ok, ignore_patterns)

\* C2. Deletion propagation: after a live pass without I/O faults no file
\* or directory is left in the replica whose relative path does not exist
\* in the source, for every ignore-rule list.
C2_DeletionPropagation ==
    LivePassDone =>
        \A p \in Paths : Exists(rep, p) => Exists(src, p)

\* C3. Source-scan failure: when the source root is missing or unreadable
\* the scan fails and the pass is aborted, so that a pass over a lost
\* source root removes or changes nothing in the replica.
C3_SourceScanFailure ==
    ~source_ok /\ pc \notin {"idle", "exited"} => rep = start.rep

\* C4. Idempotence: the second of two live fault-free passes over an
\* unchanged source has empty add, remove and update sets and copies,
\* deletes and creates nothing in the replica.
C4_Idempotence ==
    prev.clean /\ ~faulted
        /\ pc \in {"add", "remove", "update", "flush", "retry", "done", "failed"} =>
            /\ to_add = {}
            /\ to_remove = {}
            /\ to_update = {}
            /\ Preview(log) = {}
            /\ cur = NoOp

Copies(events) == {e \in events : e.kind \in {"dir_copied", "file_copied"}}
Removals(events) == {e \in events : e.kind = "removed"}

\* C5. Phase order: in every pass every copy, of an added or of an updated
\* item, is made before the first removal, and the cache flush comes after
\* the last removal (stated for the live passes, which do copy and remove).
C5_PhaseOrder ==
    [][/\ (~dry_run /\ ~(Copies(log') \subseteq Copies(log)))
            => (Removals(log) = {})
       /\ (pc = "flush")
            => (to_remove \subseteq {e.item : e \in Removals(log)})]_vars

\* C6. Retry bound: a call handed to _retry_operation is never invoked more
\* than max_retries times; one that fails every time is invoked exactly
\* max_retries times, with one warning per attempt and exactly one
\* permanent-failure error; one that succeeds on attempt k is invoked
\* exactly k times and logs no permanent failure.
C6_RetryBound ==
    /\ cur.calls <= max_retries
    /\ cur.errs <= 1
    /\ cur.state = "running" => cur.warns = cur.calls /\ cur.errs = 0
    /\ cur.state = "returned" /\ cur.ok =>
          /\ cur.calls \in 1..max_retries
          /\ cur.warns = cur.calls - 1
          /\ cur.errs = 0
    /\ cur.state = "returned" /\ ~cur.ok =>
          /\ cur.calls = max_retries
          /\ cur.warns = max_retries
          /\ cur.errs = 1

\* a call has failed on every one of several attempts and was given up
C6_Witness ==
    /\ cur.state = "returned"
    /\ ~cur.ok
    /\ max_retries >= 2
    /\ cur.calls = max_retries

\* C7. Item-failure isolation: an I/O failure while one entry is handled in
\* the add or update loop never leaves the pass; the loops go on.
C7_ItemFailureIsolation ==
    [][(pc \in {"add", "update", "retry"}) => ~(pc' = "failed")]_vars

\* C8. Dry-run purity: while dry_run is set no step changes the replica
\* tree: no copy, no directory creation, no removal, no cache file write.
C8_DryRunPurity ==
    [][dry_run => (rep' = rep)]_vars

\* a dry-run pass in hash mode with the cache enabled has ended after
\* reporting a copy and a removal
C8_Witness ==
    /\ dry_run
    /\ use_md5
    /\ use_hash_cache
    /\ pc = "done"
    /\ Copies(log) # {}
    /\ Removals(log) # {}

\* C9. Dry-run preview: a dry-run pass reports the same copy and removal
\* events as a fault-free live pass started from the same trees and options.
C9_DryRunPreview ==
    LivePassEnded /\ prev.twin => Preview(log) = prev.events

\* ------------------------------------------- should_ignore on its own

PathChars == {"a", "b", "/", "\\"}
RuleChars == {"a", "b", "/", "*"}
SeqsUpTo(chars, n) == UNION {[1..k -> chars] : k \in 1..n}
ListsUpTo(elems, n) == UNION {[1..k -> elems] : k \in 0..n}

IsSeparator(c) == c \in {"/", "\\"}

\* the relative paths get_all_items builds: names joined by one separator
RelativePaths ==
    {p \in SeqsUpTo(PathChars, MaxPathLen) :
        /\ ~IsSeparator(p[1])
        /\ ~IsSeparator(p[Len(p)])
        /\ \A i \in 1..(Len(p) - 1) : ~(IsSeparator(p[i]) /\ IsSeparator(p[i + 1]))}

\* the rules: non-empty lines of the ignore file (main(), lines 384-387)
\* that do not begin with a separator
IgnoreRules == {r \in SeqsUpTo(RuleChars, MaxRuleLen) : ~IsSeparator(r[1])}

InitIgnore ==
    /\ ignore_patterns \in ListsUpTo(IgnoreRules, MaxRules)
    /\ query \in [path : RelativePaths, state : {"asked"}, result : {FALSE}]
    /\ pc = "query"
    /\ src = EmptyTree
    /\ source_ok = TRUE
    /\ rep = EmptyTree
    /\ use_md5 = FALSE
    /\ use_hash_cache = FALSE
    /\ dry_run = FALSE
    /\ max_retries = 1
    /\ hash_cache = {}
    /\ passes = 0
    /\ source_items = NoItems
    /\ replica_items = NoItems
    /\ to_add = {}
    /\ to_remove = {}
    /\ in_both = {}
    /\ iter = {}
    /\ cur = NoOp
    /\ log = {}
    /\ faults = 0
    /\ faulted = FALSE
    /\ start = NoStart
    /\ to_update = {}
    /\ prev = NoPrev

\* one call of should_ignore(path)
ShouldIgnore ==
    /\ pc = "query"
    /\ query.state = "asked"
    /\ query' = [query EXCEPT !.state = "done",
                              !.result = should_ignore(query.path, ignore_patterns)]
    /\ UNCHANGED <<srcv, rep, optv, dry_run, hash_cache, pc, passes, planv,
                   iter, cur, log, faults, faulted, start, to_update, prev>>

NextIgnore == ShouldIgnore

SpecIgnore == InitIgnore /\ [][NextIgnore]_vars

\* the matching rule as the specification words it
SpecifiedMatch(path, rule) ==
    LET p == Normalize(path)
        r == Normalize(rule)
    IN IF EndsWith(r, Slash)
       THEN p = SubSeq(r, 1, Len(r) - 1) \/ StartsWith(p, r)
       ELSE IF Len(r) > 0 /\ r[1] = "*"
       THEN EndsWith(p, SubSeq(r, 2, Len(r)))
       ELSE p = r

\* C10. Ignore matching: should_ignore(p) is true exactly when some rule
\* matches p, where "D/" matches D and the paths that start with "D/",
\* "*ext" matches the paths that end with ext, and a plain rule matches the
\* path equal to it, after separator normalisation.
C10_IgnoreMatching ==
    query.state = "done" =>
        query.result = (\E i \in 1..Len(ignore_patterns) :
                            SpecifiedMatch(query.path, ignore_patterns[i]))

\* ------------------------------------- files_differ and md5 on their own

MaxCalls == 3         \* calls of files_differ and md5 in one explored run

\* the modification times of the compared files, in milliseconds
Mtimes == {0, 500, 1000, 2000}
ComparedNodes == {FileNode(d, t) : d \in {1, 2, 3}, t \in Mtimes}

OnePath(node) == [p \in Paths |-> IF p = A THEN node ELSE NoNode]

\* the outcome of the last call: files_differ or md5, what it returned,
\* whether md5 read the file, and whether an entry recorded for the file's
\* path, size and truncated mtime existed when it was called
NoCall == [call |-> "none", side |-> "none", differ |-> FALSE,
           hash |-> NoDigest, read |-> FALSE, known |-> FALSE]

\* what line 149 records when it stores a digest: the file it was computed
\* from, by size and whole seconds of mtime
Recorded(side, node, before, after) ==
    IF after # before
    THEN {[side |-> side, size |-> Size(node), sec |-> node.mtime \div 1000,
           hash |-> Digest(node)]}
    ELSE {}
Known(entries, side, node) ==
    \E e \in entries : /\ e.side = side
                       /\ e.size = Size(node)
                       /\ e.sec = node.mtime \div 1000

\* one synchronizer, a source file and a replica file (or none) at the same
\* relative path; log holds the entries recorded so far, passes counts the
\* calls
InitCompare ==
    /\ src \in {OnePath(n) : n \in ComparedNodes}
    /\ rep \in {OnePath(n) : n \in ComparedNodes \cup {NoNode}}
    /\ source_ok = TRUE
    /\ use_md5 \in BOOLEAN
    /\ use_hash_cache \in BOOLEAN
    /\ dry_run = FALSE
    /\ ignore_patterns = << >>
    /\ max_retries = 1
    /\ hash_cache = {}
    /\ pc = "compare"
    /\ passes = 0
    /\ source_items = NoItems
    /\ replica_items = NoItems
    /\ to_add = {}
    /\ to_remove = {}
    /\ in_both = {}
    /\ iter = {}
    /\ cur = NoOp
    /\ log = {}
    /\ faults = 0
    /\ faulted = FALSE
    /\ start = NoStart
    /\ to_update = {}
    /\ prev = NoPrev
    /\ query = NoCall

\* files_differ(source_file, replica_file)
FilesDiffer ==
    /\ pc = "compare"
    /\ passes < MaxCalls
    /\ LET fd == files_differ(A, src[A], rep[A], hash_cache, use_md5,
                              use_hash_cache)
           hashed == use_md5 /\ Exists(rep, A)
           sh == md5("source", A, src[A], hash_cache, use_hash_cache)
       IN /\ ~fd.raised
          /\ hash_cache' = fd.cache
          /\ query' = [NoCall EXCEPT !.call = "files_differ",
                                     !.differ = fd.differ]
          /\ log' = IF hashed
                    THEN log \cup Recorded("source", src[A], hash_cache, sh.cache)
                             \cup Recorded("replica", rep[A], sh.cache, fd.cache)
                    ELSE log
    /\ passes' = passes + 1
    /\ UNCHANGED <<srcv, rep, optv, dry_run, pc, planv, iter, cur, faults,
                   faulted, start, to_update, prev>>

\* md5(file_path) on the source file or on the replica file
Md5Call ==
    /\ pc = "compare"
    /\ passes < MaxCalls
    /\ \E side \in {"source", "replica"} :
        LET node == IF side = "source" THEN src[A] ELSE rep[A]
            r == md5(side, A, node, hash_cache, use_hash_cache)
        IN /\ ~r.raised
           /\ hash_cache' = r.cache
           /\ query' = [NoCall EXCEPT
                           !.call = "md5",
                           !.side = side,
                           !.hash = r.hash,
                           !.read = md5_reads(side, A, node, hash_cache,
                                              use_hash_cache),
                           !.known = Known(log, side, node)]
           /\ log' = log \cup Recorded(side, node, hash_cache, r.cache)
    /\ passes' = passes + 1
    /\ UNCHANGED <<srcv, rep, optv, dry_run, pc, planv, iter, cur, faults,
                   faulted, start, to_update, prev>>

\* a program writes the source file or the replica file: new content, and
\* a modification time that is not earlier than the old one
ModifyFile ==
    /\ pc = "compare"
    /\ passes < MaxCalls
    /\ \E n \in ComparedNodes :
        \/ /\ n.mtime >= src[A].mtime
           /\ n # src[A]
           /\ src' = OnePath(n)
           /\ rep' = rep
        \/ /\ n.mtime >= rep[A].mtime
           /\ n # rep[A]
           /\ rep' = OnePath(n)
           /\ src' = src
    /\ query' = NoCall
    /\ UNCHANGED <<source_ok, optv, dry_run, hash_cache, pc, passes, planv,
                   iter, cur, log, faults, faulted, start, to_update, prev>>

NextCompare ==
    \/ FilesDiffer
    \/ Md5Call
    \/ ModifyFile

SpecCompare == InitCompare /\ [][NextCompare]_vars

\* C11. Hash-mode equality: in hash mode, with the cache enabled or not,
\* after any earlier comparisons and modifications, files_differ on an
\* existing replica file is true exactly when the contents of the two
\* files differ; modification times play no part.
C11_HashModeEquality ==
    query.call = "files_differ" /\ use_md5 /\ IsFile(rep, A) =>
        query.differ = (src[A].data # rep[A].data)

\* the file a finished md5 call was made on
Md5Node == IF query.side = "source" THEN src[A] ELSE rep[A]

\* C12. Cache freshness: with the hash cache enabled md5 returns a stored
\* digest without reading the file only when an entry was recorded for the
\* same path, size and truncated mtime; when none was, it reads the file,
\* returns the fresh digest and stores it under the current key.
C12_CacheFreshness ==
    query.call = "md5" /\ use_hash_cache /\ Md5Node.kind = "file" =>
        /\ query.read = ~query.known
        /\ query.read =>
              /\ query.hash = Digest(Md5Node)
              /\ CacheHas(hash_cache, CacheKey(query.side, A, Md5Node))
              /\ CacheGet(hash_cache, CacheKey(query.side, A, Md5Node))
                    = Digest(Md5Node)
        /\ ~query.read =>
              \E e \in log : /\ e.side = query.side
                             /\ e.size = Size(Md5Node)
                             /\ e.sec = Md5Node.mtime \div 1000
                             /\ e.hash = query.hash

\* md5 answered from the cache for a file that had been hashed, modified
\* and hashed again since
C12_Witness ==
    /\ query.call = "md5"
    /\ use_hash_cache
    /\ ~query.read
    /\ Cardinality({e \in log : e.side = query.side}) >= 2

\* the absolute difference of two modification times, in milliseconds
AbsDiff(s, r) == IF s >= r THEN s - r ELSE r - s

\* C13. Metadata-mode equality: with use_md5 false files_differ is true
\* when the replica file does not exist, and otherwise exactly when the
\* sizes differ or the modification times are more than 1000 ms apart.
C13_MetadataEquality ==
    query.call = "files_differ" /\ ~use_md5 =>
        query.differ = (\/ ~Exists(rep, A)
                        \/ Size(src[A]) # Size(rep[A])
                        \/ AbsDiff(src[A].mtime, rep[A].mtime) > 1000)

\* equal sizes, the replica 2000 ms newer than the source: reported as
\* differing
C13_Witness ==
    /\ query.call = "files_differ"
    /\ ~use_md5
    /\ Exists(rep, A)
    /\ Size(src[A]) = Size(rep[A])
    /\ rep[A].mtime - src[A].mtime = 2000
    /\ query.differ

\* ------------------------------------------------ claims on the passes

\* C14. Cache I/O degradation: a cache file that cannot be read or parsed
\* when it is loaded, or cannot be written at the flush, does not stop the
\* synchronizer: the constructor does not leave main(), and the pass whose
\* flush failed is still reported as completed.
C14_CacheDegradation ==
    [][/\ (pc = "flush") => ~(pc' = "failed")
       /\ ~(pc' = "exited")]_vars

\* C15. Loop resilience: an exception raised by a pass is caught, and
\* another pass is started afterwards; passes do not overlap: a pass starts
\* only from the sleeping loop, which is entered only from a pass that has
\* completed its flush or has failed.
C15_LoopResilience ==
    /\ [](pc = "failed" /\ passes + 1 < MaxPasses => <>(pc = "scan_replica"))
    /\ [][/\ (pc' = "scan_replica") => (pc = "idle")
          /\ (pc' = "idle" /\ pc # "idle") => (pc \in {"done", "failed"})
          /\ (pc' = "done") => (pc = "flush")]_vars

\* a pass has been started after the pass before it failed
C15_Witness ==
    /\ pc = "scan_replica"
    /\ prev.failed

\* the items of both snapshots, and what the loops of a pass have handled
SourceAll == source_items.files \cup source_items.dirs
ReplicaAll == replica_items.files \cup replica_items.dirs
CopiedItems == {e.item : e \in Copies(log)}
RemovedItems == {e.item : e \in Removals(log)}
\* the common items that are regular files in the source and for which
\* files_differ holds on the replica as the scans found it
Differing ==
    {i \in SourceAll \cap ReplicaAll :
        /\ IsFile(src, i)
        /\ files_differ(i, src[i], Resolve(src, start.rep[i]), hash_cache,
                        use_md5, use_hash_cache).differ}

\* C16. Plan set algebra: when the three loops of a pass have run, the
\* items handed to copy_item are those of sourceAll minus replicaAll
\* together with the updated ones, the items handed to remove_item are
\* replicaAll minus sourceAll, the updated items are exactly the common
\* regular files for which files_differ held for the scanned replica, and
\* the three sets are pairwise disjoint.
C16_PlanAlgebra ==
    pc \in {"flush", "done"} =>
        /\ CopiedItems = (SourceAll \ ReplicaAll) \cup to_update
        /\ RemovedItems = ReplicaAll \ SourceAll
        /\ to_update = Differing
        /\ (SourceAll \ ReplicaAll) \cap RemovedItems = {}
        /\ (SourceAll \ ReplicaAll) \cap to_update = {}
        /\ RemovedItems \cap to_update = {}

\* a pass has added, removed and updated items and left a common item alone
C16_Witness ==
    /\ pc = "flush"
    /\ ~dry_run
    /\ SourceAll \ ReplicaAll # {}
    /\ RemovedItems # {}
    /\ to_update # {}
    /\ (SourceAll \cap ReplicaAll) \ to_update # {}

\* ------------------------------------------- get_all_items on its own

\* the rules given to the scanner, and the lists made of them
ScanRules == {A, A \o Slash, AA, AA \o Slash, <<"*", "a">>, HashCacheName,
              <<"*">>}
ScanRuleLists == ListsUpTo(ScanRules, MaxRules)

\* a synchronizer over a source tree, before its first pass
InitScan ==
    /\ src \in SourceTrees
    /\ source_ok = TRUE
    /\ rep = EmptyTree
    /\ use_md5 = FALSE
    /\ use_hash_cache = FALSE
    /\ dry_run = FALSE
    /\ ignore_patterns \in ScanRuleLists
    /\ max_retries = 1
    /\ hash_cache = {}
    /\ pc = "idle"
    /\ passes = 0
    /\ source_items = NoItems
    /\ replica_items = NoItems
    /\ to_add = {}
    /\ to_remove = {}
    /\ in_both = {}
    /\ iter = {}
    /\ cur = NoOp
    /\ log = {}
    /\ faults = 0
    /\ faulted = FALSE
    /\ start = NoStart
    /\ to_update = {}
    /\ prev = NoPrev
    /\ query = NoQuery

NextScan == ScanSource

SpecScan == InitScan /\ [][NextScan]_vars

\* a path that is not ignored and lies in no ignored directory
Visible(p) ==
    /\ ~should_ignore(p, ignore_patterns)
    /\ \A q \in Ancestors(p) : ~should_ignore(q, ignore_patterns)

\* C17. Scanner result: get_all_items returns as files exactly the regular
\* files that are not ignored and have no ignored ancestor directory, and
\* as directories exactly the non-root directories that are not ignored
\* and have no ignored ancestor directory; the root is never in the set.
C17_ScannerResult ==
    pc = "scan_replica" =>
        /\ source_items.files = {p \in Paths : IsFile(src, p) /\ Visible(p)}
        /\ source_items.dirs = {p \in Paths : IsDir(src, p) /\ Visible(p)}
        /\ Empty \notin source_items.dirs

\* a scan has left out the content of an ignored directory although no rule
\* matches the content itself, and has listed another file
C17_Witness ==
    /\ pc = "scan_replica"
    /\ source_items.files # {}
    /\ \E p \in Paths :
          /\ IsFile(src, p)
          /\ ~should_ignore(p, ignore_patterns)
          /\ p \notin source_items.files

\* a live pass that began on an empty replica and met no injected fault
FromEmptyReplica ==
    /\ pc \notin {"idle", "exited"}
    /\ start.rep = EmptyTree
    /\ ~dry_run
    /\ ~faulted

\* C18. Addition is order-independent: in a live pass over an empty replica,
\* in whatever order the add set is processed, every file copy finds its
\* parent directory present, no copy fails and the pass is not aborted, and
\* after the pass every scanned source file and directory, the empty ones
\* included, is in the replica.
C18_AdditionOrder ==
    FromEmptyReplica =>
        /\ pc # "failed"
        /\ cur.warns = 0
        /\ \A e \in log : e.kind # "error"
        /\ (pc = "retry" /\ cur.func = "copy2") => IsDir(rep, Dirname(cur.item))
        /\ (pc = "done") =>
              \A p \in SourceAll : rep[p].kind = src[p].kind

\* the file two levels down is the first item of the add set to be
\* processed: its directories were created for it and it is being copied
C18_Witness ==
    /\ FromEmptyReplica
    /\ pc = "retry"
    /\ cur.func = "copy2"
    /\ cur.item = AAA
    /\ iter = {AAA}
    /\ {A, AA} \subseteq to_add
    /\ IsDir(rep, AA)

\* C19. No spurious failures: in a live pass without injected I/O faults,
\* in whatever order the add set and the remove set are processed, no
\* operation of the add and remove loops is retried and no permanent
\* failure is logged.
C19_NoSpuriousFailures ==
    /\ ~dry_run
    /\ ~faulted
    /\ \/ pc \in {"add", "remove"}
       \/ pc = "retry" /\ cur.phase \in {"add", "remove"}
    => /\ cur.warns = 0
       /\ \A e \in log : e.kind # "error"

\* C20. Success events are truthful: in a live pass an item has the event
\* 'File copied/updated' or 'Removed' only if its operation succeeded
\* within the retry bound: no item has both a success event and a
\* permanent failure.
C20_TruthfulEvents ==
    ~dry_run =>
        \A e \in log :
            e.kind \in {"file_copied", "removed"} =>
                Event("error", e.item) \notin log

\* C21. Cache file is outside reconciliation: with the hash cache enabled,
\* no step of the add, remove and update loops of a live pass deletes or
\* overwrites hash_cache.json in the replica root, and after every
\* completed live pass the file exists and holds the in-memory cache.
C21_CacheFileOutside ==
    /\ [](use_hash_cache /\ ~dry_run /\ pc = "done" =>
              /\ IsFile(rep, HashCacheName)
              /\ rep[HashCacheName].data = 0
              /\ rep[HashCacheName].json = hash_cache)
    /\ [][use_hash_cache /\ ~dry_run /\ pc \in {"add", "remove", "update", "retry"}
              => (rep'[HashCacheName] = rep[HashCacheName])]_vars

\* ------------------------------- a replica that holds a symbolic link

\* the source trees, with files of two contents
LinkSourceNodes == {NoNode, DirNode, FileNode(1, 0), FileNode(2, 5000)}
\* the replica trees: regular files and directories, and one symbolic link
\* that points at a path of the source tree which is not a directory
LinkBaseTrees ==
    {t \in TreesOver({NoNode, DirNode, FileNode(1, 0)}) :
        t[HashCacheName] = NoNode}
LinkTrees(stree) ==
    {[t EXCEPT ![p] = LinkNode(q)] :
        t \in LinkBaseTrees,
        p \in {x \in Paths \ {HashCacheName} : TRUE},
        q \in {y \in Paths : ~IsDir(stree, y) /\ IsDir(stree, Dirname(y))}}

\* the two roots are apart: neither is the other, inside it or around it
InitLink ==
    /\ src \in TreesOver(LinkSourceNodes)
    /\ source_ok = TRUE
    /\ rep \in {t \in LinkTrees(src) :
                   /\ WellFormed(t)
                   /\ \A p \in Paths :
                         t[p].kind = "link" => Descendants(p) \cap
                             {x \in Paths : t[x].kind # "none"} = {}}
    /\ use_md5 \in BOOLEAN
    /\ use_hash_cache \in BOOLEAN
    /\ dry_run \in BOOLEAN
    /\ ignore_patterns = << >>
    /\ max_retries = 1
    /\ hash_cache = load_cache(rep, use_hash_cache)
    /\ pc = "idle"
    /\ passes = 0
    /\ source_items = NoItems
    /\ replica_items = NoItems
    /\ to_add = {}
    /\ to_remove = {}
    /\ in_both = {}
    /\ iter = {}
    /\ cur = NoOp
    /\ log = {}
    /\ faults = MaxFaults
    /\ faulted = FALSE
    /\ start = NoStart
    /\ to_update = {}
    /\ prev = NoPrev
    /\ query = NoQuery

SpecLink == InitLink /\ [][Next]_vars

\* C22. Source is read-only: with the two roots apart, every step that
\* creates, modifies or deletes an entry of the source tree is a step of
\* the environment: no step of a pass, in any mode and under any I/O
\* failure, changes the source tree.
C22_SourceReadOnly ==
    [][(src' # src) => (SourceRemove \/ SourceRootLost)]_vars

====
